---------------------------- MODULE Spec2Model ----------------------------
(***************************************************************************)
(* Model of the numerical integration backend (src/backend/main.py):       *)
(*   - IntegrationService.create_function: the expression evaluator,       *)
(*   - the four quadrature strategies,                                     *)
(*   - IntegrationService.integrate and the POST /integrate endpoint,      *)
(*   - ConnectionManager and the /ws endpoint, one coroutine per client,   *)
(*     interleaved at their await points.                                  *)
(*                                                                         *)
(* Floating point numbers are modelled by exact rationals extended with    *)
(* +inf, -inf and nan, so that numpy's division by zero (inf / nan plus a  *)
(* warning) and Python's division by zero (ZeroDivisionError) are told     *)
(* apart.  Rounding is not modelled.                                       *)
(***************************************************************************)
EXTENDS Integers, Sequences, FiniteSets, TLC

VARIABLES
    expr,               \* create_function: the expression string handed in
    created,            \* create_function: its outcome
    qin,                \* strategy call: [method, func, a, b, n]
    rng,                \* state of the global numpy random generator
    qout,               \* strategy call: outcome of the last call
    qprev,              \* strategy call: outcome of the call before a bound swap
    request,            \* POST /integrate: the request body being served
    svc,                \* POST /integrate: outcome of IntegrationService.integrate
    response,           \* POST /integrate: what the endpoint returns or raises
    active_connections, \* ConnectionManager.active_connections (a list)
    pc,                 \* /ws: where each client's handler coroutine stands
    alive,              \* /ws: whether the client's end of the socket is open
    pending,            \* /ws: the text the client has sent and the handler not read
    served,             \* /ws: number of requests the handler has received
    inbox,              \* /ws: per client, the messages send_json delivered to it
    bcast,              \* /ws: per handler, the frame of its broadcast() call
    remove_errors,      \* /ws: connections whose list removal raised ValueError
    caught              \* /ws: per handler, str(e) of the ValueError it caught

evars == <<expr, created>>
qvars == <<qin, rng, qout, qprev>>
rvars == <<request, svc, response>>
wvars == <<active_connections, pc, alive, pending, served, inbox, bcast,
           remove_errors, caught>>
vars  == <<expr, created, qin, rng, qout, qprev, request, svc, response,
           active_connections, pc, alive, pending, served, inbox, bcast,
           remove_errors, caught>>

NoOutcome == <<"none">>

(***************************************************************************)
(* Extended rationals: <<n, d>> with d > 0 and gcd(n, d) = 1 is n/d;       *)
(* <<1, 0>> is +inf, <<-1, 0>> is -inf, <<0, 0>> is nan.                   *)
(***************************************************************************)
RECURSIVE GCD(_, _)
GCD(m, k) == IF k = 0 THEN m ELSE GCD(k, m % k)

IAbs(i) == IF i < 0 THEN -i ELSE i
Sign(i) == IF i > 0 THEN 1 ELSE IF i < 0 THEN -1 ELSE 0

Norm(n, d) ==
    IF d = 0 THEN <<Sign(n), 0>>
    ELSE LET g == GCD(IAbs(n), IAbs(d))
             s == IF d < 0 THEN -1 ELSE 1
         IN  <<(s * n) \div g, (s * d) \div g>>

Rat(i)   == <<i, 1>>
Zero     == <<0, 1>>
NaN      == <<0, 0>>
PosInf   == <<1, 0>>
NegInf   == <<-1, 0>>

IsNaN(p)    == p[2] = 0 /\ p[1] = 0
IsInf(p)    == p[2] = 0 /\ p[1] # 0
IsFinite(p) == p[2] > 0

XNeg(p) == <<-p[1], p[2]>>
XAbs(p) == <<IAbs(p[1]), p[2]>>

XAdd(p, q) ==
    IF IsNaN(p) \/ IsNaN(q) THEN NaN
    ELSE IF IsInf(p) /\ IsInf(q) THEN (IF p = q THEN p ELSE NaN)
    ELSE IF IsInf(p) THEN p
    ELSE IF IsInf(q) THEN q
    ELSE LET g == GCD(p[2], q[2])
         IN  Norm(p[1] * (q[2] \div g) + q[1] * (p[2] \div g),
                  (p[2] \div g) * q[2])

XSub(p, q) == XAdd(p, XNeg(q))

\* 0 * inf is nan: the product's numerator and denominator are both 0.
XMul(p, q) ==
    IF p[2] = 0 \/ q[2] = 0 THEN Norm(Sign(p[1]) * Sign(q[1]), 0)
    ELSE LET g1 == GCD(IAbs(p[1]), q[2])
             g2 == GCD(IAbs(q[1]), p[2])
         IN  Norm((p[1] \div g1) * (q[1] \div g2),
                  (p[2] \div g2) * (q[2] \div g1))

\* numpy's true division: x / 0 is +-inf (nan for 0 / 0), x / inf is 0.
XRecip(q) ==
    IF IsNaN(q) THEN NaN
    ELSE IF IsInf(q) THEN Zero
    ELSE IF q[1] = 0 THEN PosInf
    ELSE Norm(q[2], q[1])

XDiv(p, q) == XMul(p, XRecip(q))

RECURSIVE XPow(_, _)
XPow(p, k) == IF k = 0 THEN Rat(1) ELSE XMul(p, XPow(p, k - 1))

\* IEEE comparisons: every comparison with nan is false.
XLess(p, q) ==
    IF IsNaN(p) \/ IsNaN(q) THEN FALSE
    ELSE IF IsInf(p) THEN p = NegInf /\ q # NegInf
    ELSE IF IsInf(q) THEN q = PosInf
    ELSE p[1] * q[2] < q[1] * p[2]
XEq(p, q)   == ~IsNaN(p) /\ ~IsNaN(q) /\ p = q

(***************************************************************************)
(* Expressions.  The text of an expression is modelled by its parse:       *)
(*   <<"syntax_error", text>>   text that is no Python expression          *)
(*   <<"lit", k>>               an integer literal                         *)
(*   <<"str", s>>               a string literal                           *)
(*   <<"x">>                    the lambda's parameter                     *)
(*   <<"name", id>>             any other identifier                       *)
(*   <<"call", id, arg>>        id(arg)                                    *)
(*   <<"bin", op, l, r>>        l op r, op in + - * / **                   *)
(*   <<"if", k, l, r>>          l if x < k else r                          *)
(* Run-time values: <<"py", n, d>> a Python int or float, <<"np", n, d>> a *)
(* numpy scalar, <<"fn", id>> a function object, <<"mod", id>> a module,   *)
(* <<"str", s>> a string, <<"irr">> a finite positive float that the model *)
(* does not resolve (pi, e and what is computed from them); arithmetic     *)
(* that would need its value is left undefined.                            *)
(***************************************************************************)
AllowedNames == {"sin", "cos", "tan", "exp", "log", "sqrt", "pi", "e"}
UfuncNames   == {"sin", "cos", "tan", "exp", "log", "sqrt"}
\* The names of Python's builtins module that the model tells apart.
BuiltinNames == {"abs", "__import__"}
\* Modules that __import__ finds.
Importable   == {"os"}

IsNum(v) == v[1] \in {"py", "np"}
Q(v)     == <<v[2], v[3]>>
Num(t, q) == <<t, q[1], q[2]>>
\* numpy arithmetic wins: the result is a numpy scalar when an operand is.
Join(u, v) == IF u[1] = "np" \/ v[1] = "np" THEN "np" ELSE "py"

\* An evaluation's outcome: <<status, value, resolved, called>>: status is
\* "ok" or the exception's class, resolved the names looked up successfully,
\* called the names whose object was called.
Ok(v, res, cal)    == <<"ok", v, res, cal>>
Raise(c, res, cal) == <<c, NoOutcome, res, cal>>

\* eval(func_code, allowed_names, allowed_names): the globals of the lambda
\* are allowed_names, into which eval() inserts "__builtins__" when the key
\* is missing; a global name is looked up there and then in the builtins.
Lookup(id) ==
    IF id \in {"pi", "e"} THEN <<"irr">>
    ELSE IF id \in UfuncNames THEN <<"fn", id>>
    ELSE IF id = "__builtins__" THEN <<"mod", "builtins">>
    ELSE IF id \in BuiltinNames THEN <<"fn", id>>
    ELSE NoOutcome

\* numpy's ufuncs at the points where their value is exact; the result is a
\* numpy scalar.  Other points are not modelled (the CASE has no OTHER).
Ufunc(id, q) ==
    CASE id = "sin"  /\ q = Zero -> Zero
      [] id = "tan"  /\ q = Zero -> Zero
      [] id = "cos"  /\ q = Zero -> Rat(1)
      [] id = "exp"  /\ q = Zero -> Rat(1)
      [] id = "sqrt" /\ q = Zero -> Zero
      [] id = "sqrt" /\ q = Rat(1) -> Rat(1)
      [] id = "sqrt" /\ IsFinite(q) /\ q[1] < 0 -> NaN
      [] id = "log"  /\ q = Zero -> NegInf
      [] id = "log"  /\ q = Rat(1) -> Zero
      [] id = "log"  /\ IsFinite(q) /\ q[1] < 0 -> NaN

\* f(arg) for a function object f.
CallFn(id, v, res, cal) ==
    LET cal2 == cal \cup {id} IN
    IF id \in UfuncNames THEN
        IF IsNum(v) THEN Ok(Num("np", Ufunc(id, Q(v))), res, cal2)
        ELSE IF v = <<"irr">> THEN Ok(v, res, cal2)
        ELSE Raise("TypeError", res, cal2)
    ELSE IF id = "abs" THEN
        IF IsNum(v) THEN Ok(Num(v[1], XAbs(Q(v))), res, cal2)
        ELSE IF v = <<"irr">> THEN Ok(v, res, cal2)
        ELSE Raise("TypeError", res, cal2)
    ELSE \* __import__
        IF v[1] # "str" THEN Raise("TypeError", res, cal2)
        ELSE IF v[2] \in Importable THEN Ok(<<"mod", v[2]>>, res, cal2)
        ELSE Raise("ModuleNotFoundError", res, cal2)

\* l op r on two values.  Python's own division raises on a zero divisor;
\* with a numpy scalar on either side the division is numpy's.
BinOp(op, u, v, res, cal) ==
    IF IsNum(u) /\ IsNum(v) THEN
        LET t == Join(u, v) IN
        CASE op = "+" -> Ok(Num(t, XAdd(Q(u), Q(v))), res, cal)
          [] op = "-" -> Ok(Num(t, XSub(Q(u), Q(v))), res, cal)
          [] op = "*" -> Ok(Num(t, XMul(Q(u), Q(v))), res, cal)
          [] op = "/" -> IF t = "py" /\ Q(v) = Zero
                         THEN Raise("ZeroDivisionError", res, cal)
                         ELSE Ok(Num(t, XDiv(Q(u), Q(v))), res, cal)
          [] op = "**" /\ v[1] = "py" /\ v[3] = 1 /\ v[2] >= 0
                      -> Ok(Num(t, XPow(Q(u), v[2])), res, cal)
    ELSE IF u = <<"irr">> /\ IsNum(v) /\ IsFinite(Q(v)) THEN
        CASE op = "*" /\ Q(v) = Zero -> Ok(Num(v[1], Zero), res, cal)
          [] op = "*" /\ Q(v) # Zero -> Ok(u, res, cal)
          [] op \in {"+", "-"}       -> Ok(u, res, cal)
          [] op = "/" /\ Q(v) = Zero /\ v[1] = "py"
                                     -> Raise("ZeroDivisionError", res, cal)
          [] op = "/" /\ Q(v) # Zero -> Ok(u, res, cal)
    ELSE IF v = <<"irr">> /\ IsNum(u) /\ IsFinite(Q(u)) THEN
        CASE op \in {"*", "/"} /\ Q(u) = Zero -> Ok(Num(u[1], Zero), res, cal)
          [] op \in {"*", "/"} /\ Q(u) # Zero -> Ok(v, res, cal)
          [] op \in {"+", "-"}                -> Ok(v, res, cal)
    ELSE IF u = <<"irr">> /\ v = <<"irr">> THEN
        CASE op \in {"+", "*", "/"} -> Ok(u, res, cal)
    ELSE CASE u[1] \in {"fn", "mod"} \/ v[1] \in {"fn", "mod"}
                -> Raise("TypeError", res, cal)
           [] u[1] = "str" /\ v[1] # "str" /\ op \in {"+", "-", "/", "**"}
                -> Raise("TypeError", res, cal)
           [] u[1] # "str" /\ v[1] = "str" /\ op \in {"+", "-", "/", "**"}
                -> Raise("TypeError", res, cal)

\* The body of "lambda x: <e>" run with x bound to the value xv.  Python
\* evaluates left to right, the callee before its argument, and only the
\* branch of a conditional that the test selects.
RECURSIVE Eval(_, _, _, _)
Eval(e, xv, res, cal) ==
    CASE e[1] = "lit"  -> Ok(<<"py", e[2], 1>>, res, cal)
      [] e[1] = "str"  -> Ok(e, res, cal)
      [] e[1] = "x"    -> Ok(xv, res, cal)
      [] e[1] = "name" ->
            LET v == Lookup(e[2]) IN
            IF v = NoOutcome THEN Raise("NameError", res, cal)
            ELSE Ok(v, res \cup {e[2]}, cal)
      [] e[1] = "call" ->
            LET f == Eval(<<"name", e[2]>>, xv, res, cal) IN
            IF f[1] # "ok" THEN f
            ELSE LET a == Eval(e[3], xv, f[3], f[4]) IN
                 IF a[1] # "ok" THEN a
                 ELSE IF f[2][1] # "fn" THEN Raise("TypeError", a[3], a[4])
                 ELSE CallFn(e[2], a[2], a[3], a[4])
      [] e[1] = "bin"  ->
            LET l == Eval(e[3], xv, res, cal) IN
            IF l[1] # "ok" THEN l
            ELSE LET r == Eval(e[4], xv, l[3], l[4]) IN
                 IF r[1] # "ok" THEN r
                 ELSE BinOp(e[2], l[2], r[2], r[3], r[4])
      [] e[1] = "if"   ->
            IF XLess(Q(xv), Rat(e[2]))
            THEN Eval(e[3], xv, res, cal)
            ELSE Eval(e[4], xv, res, cal)

\* IntegrationService.create_function: the lambda is built by eval() and
\* called once with the Python float 0.0; any exception becomes ValueError.
\* Outcome: [raised, cause, func, resolved, called].
SmokePoint == <<"py", 0, 1>>

create_function(func_str) ==
    IF func_str[1] = "syntax_error"
    THEN [raised |-> "ValueError", cause |-> "SyntaxError", func |-> func_str,
          resolved |-> {}, called |-> {}]
    ELSE LET r == Eval(func_str, SmokePoint, {}, {}) IN
         [raised   |-> IF r[1] = "ok" THEN "none" ELSE "ValueError",
          cause    |-> r[1],
          func     |-> func_str,
          resolved |-> r[3],
          called   |-> r[4]]

(***************************************************************************)
(* The quadrature strategies.  A call's outcome is a record                *)
(*   [raised, at, value, x_values, y_values, error_estimate]:              *)
(* raised is "none" or the class of the exception that left integrate(),   *)
(* at the sample point whose evaluation raised it (NoOutcome otherwise).   *)
(* error_estimate is None, <<"num", n, d>>, or, for Monte Carlo, whose     *)
(* standard error is a square root, <<"sqrt", n, d>>: the number whose     *)
(* sign is that of n/d and whose square is |n/d|.                          *)
(***************************************************************************)
None == <<"None">>

Returned(value, xs, ys, err) ==
    [raised |-> "none", at |-> NoOutcome, value |-> value,
     x_values |-> xs, y_values |-> ys, error_estimate |-> err]

Raised(cls, at) ==
    [raised |-> cls, at |-> at, value |-> NoOutcome,
     x_values |-> <<>>, y_values |-> <<>>, error_estimate |-> None]

\* np.linspace(a, b, n): n evenly spaced points, both ends included.
linspace(a, b, n) ==
    [i \in 1..n |-> IF n = 1 THEN a
                    ELSE XAdd(a, XMul(Norm(i - 1, n - 1), XSub(b, a)))]

\* func(xi) for xi an element of a numpy array.
Apply(func, x) == Eval(func, Num("np", x), {}, {})

\* [func(xi) for xi in x]: the outcomes, in order.
Samples(func, xs) == [i \in 1..Len(xs) |-> Apply(func, xs[i])]

AllOk(rs)      == \A i \in 1..Len(rs) : rs[i][1] = "ok"
\* numpy arithmetic on an array of objects that are no numbers (a module, a
\* function) raises TypeError.
AllNumeric(rs) == \A i \in 1..Len(rs) : IsNum(rs[i][2])
FirstBad(rs)   == CHOOSE i \in 1..Len(rs) :
                      rs[i][1] # "ok" /\ \A j \in 1..(i - 1) : rs[j][1] = "ok"
Values(rs)     == [i \in 1..Len(rs) |-> Q(rs[i][2])]

\* np.sum(y[lo:hi+1:step]) with 1-based, inclusive bounds.
RECURSIVE XSum(_, _, _, _)
XSum(ys, lo, hi, step) ==
    IF lo > hi THEN Zero ELSE XAdd(ys[lo], XSum(ys, lo + step, hi, step))

\* h = (b - a) / (n - 1): Python's float division, which raises
\* ZeroDivisionError on a zero divisor.
StepDivisor_OffByOne(n) == n - 2

StepDivisor(n) == n - 1

StepH(a, b, n) == XDiv(XSub(b, a), Rat(StepDivisor(n)))

\* "else: error_estimate = None": too few samples for an estimate.
NoErrorEstimate_Zero == <<"num", 0, 1>>

NoErrorEstimate == None

TrapezoidalIntegration(func, a, b, n) ==
    LET x  == linspace(a, b, n)
        rs == Samples(func, x)
    IN  IF ~AllOk(rs) THEN Raised(rs[FirstBad(rs)][1], x[FirstBad(rs)])
        ELSE IF StepDivisor(n) = 0 THEN Raised("ZeroDivisionError", NoOutcome)
        ELSE IF ~AllNumeric(rs) THEN Raised("TypeError", NoOutcome)
        ELSE
        LET y  == Values(rs)
            h  == StepH(a, b, n)
            result == XMul(h, XAdd(XAdd(XMul(Norm(1, 2), y[1]),
                                        XSum(y, 2, n - 1, 1)),
                                   XMul(Norm(1, 2), y[n])))
            error_estimate ==
                IF n > 2 THEN
                    LET sd == XDiv(XAbs(XAdd(XSub(y[3], XMul(Rat(2), y[2])), y[1])),
                                   XPow(h, 2))
                    IN  Num("num", XDiv(XMul(XPow(XSub(b, a), 3), sd),
                                        Rat(12 * n * n)))
                ELSE NoErrorEstimate
        IN  Returned(result, x, y, error_estimate)

\* Simpson's rule needs an odd number of points.
SimpsonPoints_KeepEven(n) == n

SimpsonPoints(n) == IF n % 2 = 0 THEN n + 1 ELSE n

SimpsonIntegration(func, a, b, n0) ==
    LET n  == SimpsonPoints(n0)
        x  == linspace(a, b, n)
        rs == Samples(func, x)
    IN  IF ~AllOk(rs) THEN Raised(rs[FirstBad(rs)][1], x[FirstBad(rs)])
        ELSE IF StepDivisor(n) = 0 THEN Raised("ZeroDivisionError", NoOutcome)
        ELSE IF ~AllNumeric(rs) THEN Raised("TypeError", NoOutcome)
        ELSE
        LET y  == Values(rs)
            h  == StepH(a, b, n)
            result == XMul(XDiv(h, Rat(3)),
                           XAdd(XAdd(XAdd(y[1], y[n]),
                                     XMul(Rat(4), XSum(y, 2, n - 1, 2))),
                                XMul(Rat(2), XSum(y, 3, n - 1, 2))))
            error_estimate ==
                IF n > 4 THEN
                    LET fd == XDiv(XAbs(XAdd(XSub(XAdd(XSub(y[5], XMul(Rat(4), y[4])),
                                                       XMul(Rat(6), y[3])),
                                                  XMul(Rat(4), y[2])),
                                             y[1])),
                                   XPow(h, 4))
                    IN  Num("num", XDiv(XMul(XPow(XSub(b, a), 5), fd),
                                        Rat(180 * n * n * n * n)))
                ELSE NoErrorEstimate
        IN  Returned(result, x, y, error_estimate)

\* The boundary points returned for plotting: n + 1 of them.
MidpointPlotPoints_Midpoints(n) == n

MidpointPlotPoints(n) == n + 1

MidpointIntegration(func, a, b, n) ==
    IF n = 0 THEN Raised("ZeroDivisionError", NoOutcome)
    ELSE
    LET h     == XDiv(XSub(b, a), Rat(n))
        x_mid == linspace(XAdd(a, XDiv(h, Rat(2))), XSub(b, XDiv(h, Rat(2))), n)
        rmid  == Samples(func, x_mid)
    IN  IF ~AllOk(rmid) THEN Raised(rmid[FirstBad(rmid)][1], x_mid[FirstBad(rmid)])
        ELSE IF ~AllNumeric(rmid) THEN Raised("TypeError", NoOutcome)
        ELSE
        LET y_mid  == Values(rmid)
            result == XMul(h, XSum(y_mid, 1, n, 1))
            x      == linspace(a, b, MidpointPlotPoints(n))
            rs     == Samples(func, x)
        IN  IF ~AllOk(rs) THEN Raised(rs[FirstBad(rs)][1], x[FirstBad(rs)])
            ELSE
            LET y == Values(rs)
                error_estimate ==
                    IF n > 2 THEN
                        LET sd == XDiv(XAbs(XAdd(XSub(y[3], XMul(Rat(2), y[2])), y[1])),
                                       XPow(h, 2))
                        IN  Num("num", XDiv(XMul(XPow(XSub(b, a), 3), sd),
                                            Rat(24 * n * n)))
                    ELSE NoErrorEstimate
            IN  Returned(result, x, y, error_estimate)

(***************************************************************************)
(* numpy's global random generator, modelled by a small linear             *)
(* congruential generator: a state s yields the uniform draw s / RngMod in *)
(* [0, 1) and moves on to RngNext(s).                                      *)
(***************************************************************************)
RngMod == 4
RngMul == 5
RngInc == 3
RngNext(s) == (RngMul * s + RngInc) % RngMod

RECURSIVE RngStates(_, _)
RngStates(s, n) == IF n = 0 THEN <<>> ELSE <<s>> \o RngStates(RngNext(s), n - 1)

RECURSIVE RngAfter(_, _)
RngAfter(s, n) == IF n = 0 THEN s ELSE RngAfter(RngNext(s), n - 1)

\* np.random.uniform(a, b, n) from generator state s: a + (b - a) * u.
uniform(a, b, n, s) ==
    LET u == RngStates(s, n)
    IN  [i \in 1..n |-> XAdd(a, XMul(XSub(b, a), Norm(u[i], RngMod)))]

\* np.argsort: a permutation of 1..n that puts xs in ascending order; ties
\* keep their order.
RECURSIVE InsertSorted(_, _, _)
InsertSorted(idx, xs, i) ==
    IF idx = <<>> THEN <<i>>
    ELSE IF XLess(xs[i], xs[Head(idx)]) THEN <<i>> \o idx
    ELSE <<Head(idx)>> \o InsertSorted(Tail(idx), xs, i)

RECURSIVE argsort(_, _)
argsort(xs, k) ==
    IF k = 0 THEN <<>> ELSE InsertSorted(argsort(xs, k - 1), xs, k)

\* np.mean(ys).
mean_Total(ys) == XSum(ys, 1, Len(ys), 1)

mean(ys) == XDiv(XSum(ys, 1, Len(ys), 1), Rat(Len(ys)))

\* np.std(ys) squared: the mean of the squared deviations from the mean.
variance(ys) ==
    LET m == mean(ys)
    IN  mean([i \in 1..Len(ys) |-> XPow(XSub(ys[i], m), 2)])

\* (b - a) * np.std(y) / np.sqrt(n), as the number r with the sign of
\* (b - a) * std and r * r = (b - a)^2 * var / n.
StdError(a, b, ys, n) ==
    LET sq == XDiv(XMul(XPow(XSub(b, a), 2), variance(ys)), Rat(n))
    IN  Num("sqrt", IF XLess(b, a) THEN XNeg(sq) ELSE sq)

MonteCarloIntegration(func, a, b, n, s) ==
    LET x_random == uniform(a, b, n, s)
        rs       == Samples(func, x_random)
    IN  IF ~AllOk(rs) THEN Raised(rs[FirstBad(rs)][1], x_random[FirstBad(rs)])
        ELSE IF ~AllNumeric(rs) THEN Raised("TypeError", NoOutcome)
        ELSE
        LET y_random == Values(rs)
            result   == XMul(XSub(b, a), mean(y_random))
            sorted_indices == argsort(x_random, n)
            x_sorted == [i \in 1..n |-> x_random[sorted_indices[i]]]
            y_sorted == [i \in 1..n |-> y_random[sorted_indices[i]]]
            std_error == StdError(a, b, y_random, n)
        IN  Returned(result, x_sorted, y_sorted, std_error)

(***************************************************************************)
(* Direct calls of the strategies, as the unit tests make them: a callable,*)
(* two bounds and a sample count, then the same call with the bounds       *)
(* swapped and the generator seeded as before.                             *)
(***************************************************************************)
MaxBound  == 1
MaxPoints == 11
MaxCoeff  == 2
\* IntegrationRequest.num_points: Field(100, ge=10, le=10000).
NumPointsMin == 10
NumPointsMax == 10000

Methods == {"trapezoidal", "simpson", "midpoint", "monte_carlo"}

X    == <<"x">>
Lit(k) == <<"lit", k>>
Bin(op, l, r) == <<"bin", op, l, r>>

\* The callables: constants, polynomials, abs(x), "x if x < 1 else x/(x - x)" (numpy
\* division by zero from x = 1 on: inf, no exception) and
\* "1/(1 if x < 1 else 0)" (Python division by zero from x = 1 on).
ConstantFuncs == {Lit(c) : c \in (-1)..MaxCoeff}
Callables ==
    ConstantFuncs
    \cup {X, Bin("+", Bin("*", Lit(2), X), Lit(1)),
          Bin("**", X, Lit(2)), Bin("**", X, Lit(3)),
          <<"call", "abs", X>>,
          <<"if", 1, X, Bin("/", X, Bin("-", X, X))>>,
          Bin("/", Lit(1), <<"if", 1, Lit(1), Lit(0)>>)}

Seeds == {0, 1, 2}

QuadInputs ==
    {[method |-> m, func |-> f, a |-> Rat(a), b |-> Rat(b), n |-> n, seed |-> s] :
        m \in Methods, f \in Callables, a \in (-MaxBound)..MaxBound,
        b \in (-MaxBound)..MaxBound, n \in 1..MaxPoints,
        s \in Seeds} \ {q \in [method : Methods \ {"monte_carlo"}, func : Callables,
                               a : {Rat(a) : a \in (-MaxBound)..MaxBound},
                               b : {Rat(b) : b \in (-MaxBound)..MaxBound},
                               n : 1..MaxPoints, seed : Seeds \ {0}] : TRUE}

Strategy(q, s) ==
    CASE q.method = "trapezoidal" -> TrapezoidalIntegration(q.func, q.a, q.b, q.n)
      [] q.method = "simpson"     -> SimpsonIntegration(q.func, q.a, q.b, q.n)
      [] q.method = "midpoint"    -> MidpointIntegration(q.func, q.a, q.b, q.n)
      [] q.method = "monte_carlo" -> MonteCarloIntegration(q.func, q.a, q.b, q.n, s)

\* The variables of the parts of the program a specification leaves alone.
\* An outcome variable holds <<>> until the call has returned or raised,
\* and <<outcome>> from then on.
EvalIdle == expr = NoOutcome /\ created = <<>>
QuadIdle == qin = NoOutcome /\ rng = 0 /\ qout = <<>> /\ qprev = <<>>
RestIdle == request = NoOutcome /\ svc = <<>> /\ response = <<>>
WsIdle   == /\ active_connections = <<>>
            /\ pc = <<>> /\ alive = <<>> /\ pending = <<>>
            /\ served = <<>> /\ inbox = <<>> /\ bcast = <<>>
            /\ remove_errors = {} /\ caught = <<>>

QuadInit ==
    /\ qin \in QuadInputs
    /\ rng = qin.seed           \* np.random.seed(seed)
    /\ qout = <<>>
    /\ qprev = <<>>
    /\ EvalIdle /\ RestIdle /\ WsIdle

CallTrapezoidal ==
    /\ qout = <<>> /\ qin.method = "trapezoidal"
    /\ qout' = <<TrapezoidalIntegration(qin.func, qin.a, qin.b, qin.n)>>
    /\ UNCHANGED <<qin, rng, qprev, evars, rvars, wvars>>

CallSimpson ==
    /\ qout = <<>> /\ qin.method = "simpson"
    /\ qout' = <<SimpsonIntegration(qin.func, qin.a, qin.b, qin.n)>>
    /\ UNCHANGED <<qin, rng, qprev, evars, rvars, wvars>>

CallMidpoint ==
    /\ qout = <<>> /\ qin.method = "midpoint"
    /\ qout' = <<MidpointIntegration(qin.func, qin.a, qin.b, qin.n)>>
    /\ UNCHANGED <<qin, rng, qprev, evars, rvars, wvars>>

CallMonteCarlo ==
    /\ qout = <<>> /\ qin.method = "monte_carlo"
    /\ qout' = <<MonteCarloIntegration(qin.func, qin.a, qin.b, qin.n, rng)>>
    /\ rng' = RngAfter(rng, qin.n)
    /\ UNCHANGED <<qin, qprev, evars, rvars, wvars>>

\* The caller seeds the generator as before the first call and swaps the
\* bounds for a second call.
SwapBounds ==
    /\ qout # <<>> /\ qprev = <<>>
    /\ qprev' = qout
    /\ qin' = [qin EXCEPT !.a = qin.b, !.b = qin.a]
    /\ rng' = qin.seed
    /\ qout' = <<>>
    /\ UNCHANGED <<evars, rvars, wvars>>

QuadNext == CallTrapezoidal \/ CallSimpson \/ CallMidpoint \/ CallMonteCarlo
            \/ SwapBounds

SpecQuad == QuadInit /\ [][QuadNext]_vars

(***************************************************************************)
(* Properties of the strategies, checked under SpecQuad.                   *)
(***************************************************************************)
Called      == qout # <<>>
Out         == qout[1]
Prev        == qprev[1]
CallReturned == Called /\ Out.raised = "none"
\* The exception left the callable, at a sample point.
FuncRaised  == Called /\ Out.at # NoOutcome
\* The callable returns a finite number at x.
FiniteAt(func, x) ==
    LET r == Apply(func, x) IN r[1] = "ok" /\ IsNum(r[2]) /\ IsFinite(Q(r[2]))
Deterministic == {"trapezoidal", "simpson", "midpoint"}

\* C3 as claimed: for every strategy, callable, bound a and sample count n,
\* integrate(f, a, a, n) completes without raising and returns 0.
C3_ZeroIntervalAlways ==
    (Called /\ qin.a = qin.b) => (Out.raised = "none" /\ XEq(Out.value, Zero))

\* C3 amended: when the callable does not raise at a, integrate(f, a, a, n)
\* returns 0 if f(a) is finite and nan if it is not, for every n >= 1 with
\* Midpoint and Monte Carlo and every n >= 2 with Trapezoidal and Simpson;
\* with n = 1 Trapezoidal and Simpson raise ZeroDivisionError.
C3_ZeroInterval ==
    (Called /\ qin.a = qin.b /\ ~FuncRaised) =>
        IF qin.n = 1 /\ qin.method \in {"trapezoidal", "simpson"}
        THEN Out.raised = "ZeroDivisionError"
        ELSE /\ Out.raised = "none"
             /\ IF FiniteAt(qin.func, qin.a)
                THEN XEq(Out.value, Zero)
                ELSE IsNaN(Out.value)

C3_Witness ==
    /\ Called /\ qin.a = qin.b /\ qin.n >= 2 /\ qin.method = "simpson"
    /\ qin.func = Bin("**", X, Lit(2)) /\ qin.a = Rat(1)
    /\ Out.raised = "none" /\ Out.value = Zero
    /\ Out.y_values[1] = Rat(1)

\* Both calls, before and after the swap of the bounds, returned a number.
BothReturned ==
    /\ qprev # <<>> /\ Called
    /\ Prev.raised = "none" /\ Out.raised = "none"

\* C4 as claimed: for every strategy (Monte Carlo with the generator in the
\* same state before each call), integrate(f, a, b, n) is the negation of
\* integrate(f, b, a, n).
C4_SignReversalAll ==
    BothReturned => XEq(Prev.value, XNeg(Out.value))

\* C4 amended: in exact arithmetic, and when the value is not nan,
\* integrate(f, a, b, n) = -integrate(f, b, a, n) for Trapezoidal, Simpson
\* and Midpoint.  Monte Carlo, seeded alike, samples in the second call the
\* mirror images a + b - x of the first call's points, and the two values
\* are negations of each other when f is constant.
C4_SignReversal ==
    (BothReturned /\ ~IsNaN(Prev.value) /\ ~IsNaN(Out.value)) =>
        /\ qin.method \in Deterministic => XEq(Prev.value, XNeg(Out.value))
        /\ qin.method = "monte_carlo" =>
            /\ \A i \in 1..qin.n :
                  Out.x_values[i]
                    = XSub(XAdd(qin.a, qin.b), Prev.x_values[qin.n + 1 - i])
            /\ qin.func \in ConstantFuncs => XEq(Prev.value, XNeg(Out.value))

C4_Witness ==
    /\ BothReturned /\ qin.method = "simpson" /\ qin.n = 4
    /\ qin.func = Bin("**", X, Lit(3))
    /\ Prev.value = Norm(1, 4) /\ Out.value = Norm(-1, 4)

\* The requested n is too small for an error estimate, as C5 has it.
FewSamplesClaimed ==
    \/ qin.method \in {"trapezoidal", "midpoint"} /\ qin.n <= 2
    \/ qin.method = "simpson" /\ qin.n <= 4

\* C5 as claimed: the error estimate that integrate returns is None for
\* Trapezoidal and Midpoint when the requested n <= 2 and for Simpson when
\* the requested n <= 4.
C5_NoneBelowMinimumRequested ==
    (CallReturned /\ FewSamplesClaimed) => Out.error_estimate = None

\* C5 amended: for a callable that does not raise, the error estimate is
\* None for Midpoint when n <= 2, for Trapezoidal when n = 2 and for Simpson
\* when the requested n is 2 or 3 (the count Simpson samples, n made odd,
\* is <= 4); with n = 1 Trapezoidal and Simpson raise ZeroDivisionError.
C5_NoneBelowMinimum ==
    (/\ Called /\ ~FuncRaised
     /\ \/ qin.method \in {"trapezoidal", "midpoint"} /\ qin.n <= 2
        \/ qin.method = "simpson" /\ qin.n <= 3)
    => IF qin.n = 1 /\ qin.method \in {"trapezoidal", "simpson"}
       THEN Out.raised = "ZeroDivisionError"
       ELSE Out.raised = "none" /\ Out.error_estimate = None

C5_Witness ==
    /\ Called /\ qin.method = "simpson" /\ qin.n = 3 /\ qin.a # qin.b
    /\ Out.raised = "none" /\ Out.error_estimate = None
    /\ Len(Out.x_values) = 3

\* The sign of an error estimate.
ErrSign(err) ==
    IF err[2] = 0 /\ err[3] = 0 THEN "nan"
    ELSE IF err[2] > 0 THEN "positive"
    ELSE IF err[2] < 0 THEN "negative"
    ELSE "zero"

\* C6, the claim: the error estimate is present and > 0 for Trapezoidal and
\* Midpoint when n > 2 and for Simpson when n > 4, and present and >= 0 for
\* Monte Carlo for every n >= 1.
C6_ErrorEstimateSign ==
    CallReturned =>
        /\ (\/ qin.method \in {"trapezoidal", "midpoint"} /\ qin.n > 2
            \/ qin.method = "simpson" /\ qin.n > 4)
           => (Out.error_estimate # None /\ ErrSign(Out.error_estimate) = "positive")
        /\ qin.method = "monte_carlo"
           => (Out.error_estimate # None /\ ErrSign(Out.error_estimate) \in {"zero", "positive"})

\* C6, the part of the claim that no callable with a zero finite difference
\* refutes: Monte Carlo's error estimate is never negative.
C6_MonteCarloNonNegative ==
    (CallReturned /\ qin.method = "monte_carlo")
    => ErrSign(Out.error_estimate) # "negative"

\* The number of samples each strategy returns for a requested n.
ExpectedSamples(method, n) ==
    CASE method \in {"trapezoidal", "monte_carlo"} -> n
      [] method = "simpson"  -> IF n % 2 = 1 THEN n ELSE n + 1
      [] method = "midpoint" -> n + 1

\* C7: x_values and y_values have equal length: n for Trapezoidal and Monte
\* Carlo, the odd count (n, or n + 1 when n is even) for Simpson, n + 1 for
\* Midpoint.
C7_SampleCounts ==
    CallReturned =>
        /\ Len(Out.x_values) = Len(Out.y_values)
        /\ Len(Out.x_values) = ExpectedSamples(qin.method, qin.n)

C7_Witness ==
    /\ CallReturned /\ qin.method = "simpson" /\ qin.n = 10
    /\ Len(Out.x_values) = 11 /\ Len(Out.y_values) = 11
    /\ qin.a # qin.b

\* C9: for all four strategies, every constant c, all bounds and every n
\* that request validation accepts (n >= 10), integrating f(x) = c over
\* [a, b] yields c * (b - a).
C9_ConstantExact ==
    (Called /\ qin.func \in ConstantFuncs /\ qin.n >= NumPointsMin
            /\ qin.n <= NumPointsMax)
    => /\ Out.raised = "none"
       /\ Out.value = XMul(Rat(qin.func[2]), XSub(qin.b, qin.a))

C9_Witness ==
    /\ Called /\ qin.func = Lit(2) /\ qin.n = NumPointsMin
    /\ qin.method = "simpson" /\ qin.a = Rat(-1) /\ qin.b = Rat(1)
    /\ Out.raised = "none" /\ Out.value = Rat(4)

(***************************************************************************)
(* create_function on its own: the expressions of the tests and of the     *)
(* documentation, and every small expression over the names below.         *)
(***************************************************************************)
\* Names that are neither allowed nor builtins.
UnknownNames == {"foo", "os"}
Names == AllowedNames \cup BuiltinNames \cup {"__builtins__"} \cup UnknownNames

Name(id)      == <<"name", id>>
Call(id, arg) == <<"call", id, arg>>
Str(t)        == <<"str", t>>
IfLess(k, l, r) == <<"if", k, l, r>>

Leaves == {X, Lit(1)} \cup {Name(id) : id \in Names}

DocumentedExprs ==
    {Bin("**", X, Lit(2)),                          \* "x**2"
     Bin("+", Call("sin", X), Call("cos", X)),      \* "sin(x) + cos(x)"
     Bin("*", Name("pi"), X),                       \* "pi * x"
     <<"syntax_error", "import os">>,
     <<"syntax_error", "x +">>,
     Call("__import__", Str("os"))}                 \* "__import__('os')"

SmallExprs ==
    Leaves
    \cup {Call(id, arg) : id \in Names, arg \in {X, Str("os"), Str("nope")}}
    \cup {Bin(op, l, r) : op \in {"+", "*"}, l \in Leaves, r \in Leaves}
    \cup {Bin("/", l, X) : l \in Leaves}
    \cup {IfLess(k, l, r) : k \in {0, 1}, l \in Leaves, r \in Leaves}

RECURSIVE NamesOf(_)
NamesOf(e) ==
    CASE e[1] = "name" -> {e[2]}
      [] e[1] = "call" -> {e[2]} \cup NamesOf(e[3])
      [] e[1] \in {"bin", "if"} -> NamesOf(e[3]) \cup NamesOf(e[4])
      [] OTHER -> {}

EvalInit ==
    /\ expr \in DocumentedExprs \cup SmallExprs
    /\ created = <<>>
    /\ QuadIdle /\ RestIdle /\ WsIdle

CreateFunction ==
    /\ created = <<>>
    /\ created' = <<create_function(expr)>>
    /\ UNCHANGED <<expr, qvars, rvars, wvars>>

EvalNext == CreateFunction

SpecEval == EvalInit /\ [][EvalNext]_vars

\* C1, the claim: create_function fails with ValueError for every expression
\* that references a name outside the allow-list {sin, cos, tan, exp, log,
\* sqrt, pi, e, x}, without resolving or calling that name, and it accepts
\* "x**2", "sin(x) + cos(x)" and "pi * x".
C1_OnlyAllowedNames ==
    created # <<>> =>
        /\ (expr[1] # "syntax_error" /\ NamesOf(expr) \ AllowedNames # {})
           => /\ created[1].raised = "ValueError"
              /\ created[1].resolved \subseteq AllowedNames
              /\ created[1].called \subseteq AllowedNames
        /\ expr \in {Bin("**", X, Lit(2)),
                     Bin("+", Call("sin", X), Call("cos", X)),
                     Bin("*", Name("pi"), X)}
           => created[1].raised = "none"

(***************************************************************************)
(* IntegrationService.integrate and the POST /integrate endpoint.          *)
(***************************************************************************)
\* IntegrationRequest(**data): num_points in [10, 10000], method one of the
\* four identifiers.
ValidRequest(data) ==
    /\ data.num_points >= NumPointsMin /\ data.num_points <= NumPointsMax
    /\ data.method \in Methods

\* The num_points echoed into the result.
ResultNumPoints_Sampled(req, x_values) == Len(x_values)

ResultNumPoints(req, x_values) == req.num_points

NoResult == <<"no result">>

\* IntegrationResult(...) built from the strategy's return value.
IntegrationResult(req, r) ==
    [value          |-> r.value,
     method         |-> req.method,
     num_points     |-> ResultNumPoints(req, r.x_values),
     x_values       |-> r.x_values,
     y_values       |-> r.y_values,
     error_estimate |-> r.error_estimate]

\* integrate() once the strategy has returned or raised r.
StrategyOutcome(req, r) ==
    IF r.raised # "none"
    THEN [raised |-> r.raised, cause |-> r.raised, at |-> r.at,
          result |-> NoResult]
    ELSE [raised |-> "none", cause |-> "ok", at |-> NoOutcome,
          result |-> IntegrationResult(req, r)]

\* integrate() once create_function has returned or raised cf.
IntegrateWith(req, cf, s) ==
    IF cf.raised # "none"
    THEN [raised |-> cf.raised, cause |-> cf.cause, at |-> NoOutcome,
          result |-> NoResult]
    ELSE StrategyOutcome(req,
            Strategy([method |-> req.method, func |-> cf.func,
                      a |-> req.lower_bound, b |-> req.upper_bound,
                      n |-> req.num_points], s))

\* IntegrationService.integrate(request) with the generator in state s:
\* [raised, cause, at, result].  create_function's ValueError and whatever
\* the strategy raises leave integrate() as they are.
IntegrationService_integrate(req, s) ==
    IntegrateWith(req, create_function(req.function), s)

\* The generator after integrate(): Monte Carlo draws num_points numbers.
RngAfterIntegrate(req, s) ==
    IF req.method = "monte_carlo" /\ create_function(req.function).raised = "none"
    THEN RngAfter(s, req.num_points) ELSE s

\* What the endpoint makes of integrate()'s outcome: the result, or
\* HTTPException(400, str(e)) for a ValueError, or HTTPException(500,
\* "Internal server error during integration") for any other exception.
RestResponse(o) ==
    IF o.raised = "none"
    THEN [status |-> 200, detail |-> <<>>, result |-> o.result]
    ELSE IF o.raised = "ValueError"
    THEN [status |-> 400,
          detail |-> <<"Invalid function expression: ", o.cause>>,
          result |-> NoResult]
    ELSE [status |-> 500,
          detail |-> <<"Internal server error during integration">>,
          result |-> NoResult]

\* The expressions that requests carry.
RequestFunctions ==
    {Bin("**", X, Lit(2)),                                  \* "x**2"
     X,                                                     \* "x"
     Lit(2),                                                \* "2"
     Bin("/", Lit(1), IfLess(1, Lit(1), Lit(0))),           \* "1/(1 if x < 1 else 0)"
     IfLess(1, X, Bin("/", X, Bin("-", X, X))),             \* "x if x < 1 else x/(x - x)"
     Name("foo"),                                           \* "foo"
     <<"syntax_error", "x +">>,                             \* "x +"
     Call("__import__", Str("os"))}                         \* "__import__('os')"

Requests ==
    [function    : RequestFunctions,
     lower_bound : {Rat(a) : a \in (-MaxBound)..MaxBound},
     upper_bound : {Rat(b) : b \in (-MaxBound)..MaxBound},
     num_points  : (NumPointsMin - 1)..MaxPoints,
     method      : Methods \cup {"romberg"}]

RestInit ==
    /\ request \in Requests
    /\ rng \in (IF request.method = "monte_carlo" THEN Seeds ELSE {0})
    /\ svc = <<>>
    /\ response = <<>>
    /\ qin = NoOutcome /\ qout = <<>> /\ qprev = <<>>
    /\ EvalIdle /\ WsIdle

\* FastAPI validates the body against IntegrationRequest and answers 422
\* without calling the endpoint when it does not conform.
PostIntegrateRejected ==
    /\ response = <<>> /\ ~ValidRequest(request)
    /\ response' = <<[status |-> 422, detail |-> <<"validation error">>,
                      result |-> NoResult]>>
    /\ UNCHANGED <<request, svc, rng, qin, qout, qprev, evars, wvars>>

PostIntegrate ==
    /\ response = <<>> /\ ValidRequest(request)
    /\ svc' = <<IntegrationService_integrate(request, rng)>>
    /\ rng' = RngAfterIntegrate(request, rng)
    /\ response' = <<RestResponse(svc'[1])>>
    /\ UNCHANGED <<request, qin, qout, qprev, evars, wvars>>

RestNext == PostIntegrateRejected \/ PostIntegrate

SpecRest == RestInit /\ [][RestNext]_vars

\* The callable raised at a sample point while the strategy evaluated it.
SampleRaised == svc # <<>> /\ svc[1].at # NoOutcome

\* C2, the claim: when the callable raises at a sample point during
\* integrate, the failure reaches the caller as an EvaluationError that
\* carries the x-value and is reported like an invalid expression: status
\* 400 on POST /integrate.
C2_EvaluationErrorReported ==
    SampleRaised =>
        /\ response[1].status = 400
        /\ svc[1].raised = "EvaluationError"
        /\ \E i \in 1..Len(response[1].detail) : response[1].detail[i] = svc[1].at

\* C8: for every request that IntegrationService.integrate completes, the
\* result's num_points is the requested num_points and its method the
\* requested method, whatever number of samples the strategy returned.
C8_EchoesRequest ==
    (svc # <<>> /\ svc[1].raised = "none") =>
        /\ svc[1].result.num_points = request.num_points
        /\ svc[1].result.method = request.method

C8_Witness ==
    /\ svc # <<>> /\ svc[1].raised = "none"
    /\ request.method = "simpson" /\ request.num_points = 10
    /\ svc[1].result.num_points = 10
    /\ Len(svc[1].result.x_values) = 11
    /\ response[1].status = 200

(***************************************************************************)
(* ConnectionManager and the /ws endpoint.  Every client has one handler   *)
(* coroutine; the event loop runs one coroutine at a time, from one await  *)
(* to the next, so each action below is the code between two awaits.       *)
(*   pc[c]: "connecting"     await websocket.accept()                      *)
(*          "receiving"      await websocket.receive_text()                *)
(*          "sending_result" await websocket.send_json({"type": "result"}) *)
(*          "broadcasting"   await connection.send_json(message), inside   *)
(*                           ConnectionManager.broadcast                   *)
(*          "sending_error"  await websocket.send_json({"type": "error"})  *)
(*          "closed"         the handler returned after disconnect()       *)
(*          "crashed"        an exception left the handler                 *)
(***************************************************************************)
NumClients  == 2
MaxRequests == 2

Clients == 1..NumClients

NoText == <<"no text">>
\* What a client sends: text that is no JSON, or the JSON of a request.
WsTexts ==
    {<<"text", "not json">>}
    \cup {<<"json", [function |-> f, lower_bound |-> Rat(0), upper_bound |-> Rat(1),
                    num_points |-> n, method |-> "trapezoidal"]>> :
            f \in {Bin("**", X, Lit(2)), Name("foo"),
                   Bin("/", Lit(1), IfLess(1, Lit(1), Lit(0)))},
            n \in {NumPointsMin}}
    \cup {<<"json", [function |-> X, lower_bound |-> Rat(0), upper_bound |-> Rat(1),
                    num_points |-> NumPointsMin - 1, method |-> "trapezoidal"]>>}

IdleFrame ==
    [status |-> "idle", target |-> 0, idx |-> 0, disconnected |-> <<>>,
     start |-> {}, sends |-> <<>>, failed |-> {}, succeeded |-> {}]

InList(list, x) == \E i \in 1..Len(list) : list[i] = x

\* list.remove(x): the list without its first x.
RECURSIVE Remove(_, _)
Remove(list, x) ==
    IF list = <<>> THEN <<>>
    ELSE IF Head(list) = x THEN Tail(list)
    ELSE <<Head(list)>> \o Remove(Tail(list), x)

\* send_json to client c: it succeeds while the client is there; once the
\* client has gone it may still succeed (the loss is noticed later) or raise.
OwnSendOutcomes(c) ==
    IF alive[c] THEN {"ok"} ELSE {"ok", "WebSocketDisconnect", "RuntimeError"}
BroadcastSendOutcomes(c) ==
    IF alive[c] THEN {"ok"} ELSE {"ok", "raise"}

WsInit ==
    /\ active_connections = <<>>
    /\ pc = [c \in Clients |-> "connecting"]
    /\ alive = [c \in Clients |-> TRUE]
    /\ pending = [c \in Clients |-> NoText]
    /\ served = [c \in Clients |-> 0]
    /\ inbox = [c \in Clients |-> <<>>]
    /\ bcast = [c \in Clients |-> IdleFrame]
    /\ remove_errors = {}
    /\ caught = [c \in Clients |-> NoOutcome]
    /\ rng = 0
    /\ qin = NoOutcome /\ qout = <<>> /\ qprev = <<>>
    /\ EvalIdle /\ RestIdle

\* ConnectionManager.connect: accept, then append.
Connect(c) ==
    /\ pc[c] = "connecting"
    /\ active_connections' = Append(active_connections, c)
    /\ pc' = [pc EXCEPT ![c] = "receiving"]
    /\ UNCHANGED <<alive, pending, served, inbox, bcast, remove_errors,
                   caught, evars, qvars, rvars>>

\* The client sends a text frame.
ClientSend(c) ==
    /\ alive[c] /\ pc[c] = "receiving" /\ pending[c] = NoText
    /\ served[c] < MaxRequests
    /\ \E text \in WsTexts : pending' = [pending EXCEPT ![c] = text]
    /\ UNCHANGED <<active_connections, pc, alive, served, inbox, bcast,
                   remove_errors, caught, evars, qvars, rvars>>

\* The client goes away.
ClientClose(c) ==
    /\ alive[c] /\ pc[c] # "connecting"
    /\ alive' = [alive EXCEPT ![c] = FALSE]
    /\ UNCHANGED <<active_connections, pc, pending, served, inbox, bcast,
                   remove_errors, caught, evars, qvars, rvars>>

\* ConnectionManager.disconnect(c), called by the handler of client h: the
\* removal raises ValueError when c is not in the list.  The handler goes
\* to `thenpc` when the removal succeeds and to `elsepc` when it raises.
DisconnectFrom(h, c, thenpc, elsepc) ==
    IF InList(active_connections, c)
    THEN /\ active_connections' = Remove(active_connections, c)
         /\ pc' = [pc EXCEPT ![h] = thenpc]
         /\ UNCHANGED remove_errors
    ELSE /\ remove_errors' = remove_errors \cup {c}
         /\ pc' = [pc EXCEPT ![h] = elsepc]
         /\ UNCHANGED active_connections

\* Where the handler awaits next after integrate(): the inner try catches
\* ValueError only.
AfterIntegrate_Terminate(o) ==
    IF o.raised = "none" THEN "sending_result" ELSE "crashed"

AfterIntegrate(o) ==
    IF o.raised = "none" THEN "sending_result"
    ELSE IF o.raised = "ValueError" THEN "sending_error"
    ELSE "crashed"

\* str(e) of the ValueError the inner try catches: pydantic's
\* ValidationError, create_function's ValueError, list.remove's ValueError.
ValidationMessage == <<"validation error for IntegrationRequest">>
ExpressionMessage(o) == <<"Invalid function expression: ", o.cause>>
RemoveMessage == <<"list.remove(x): x not in list">>

\* The handler after integrate() returned or raised o.
Integrated(c, o) ==
    /\ pc' = [pc EXCEPT ![c] = AfterIntegrate(o)]
    /\ caught' = [caught EXCEPT ![c] =
                    IF o.raised = "ValueError" THEN ExpressionMessage(o)
                    ELSE NoOutcome]

\* receive_text() returns the client's text: json.loads, IntegrationRequest,
\* integrate, up to the next await.  JSONDecodeError is raised outside the
\* inner try and leaves the handler, as does every exception of integrate
\* that is no ValueError.
Receive(c) ==
    /\ pc[c] = "receiving" /\ pending[c] # NoText
    /\ pending' = [pending EXCEPT ![c] = NoText]
    /\ served' = [served EXCEPT ![c] = @ + 1]
    /\ LET text == pending[c] IN
       IF text[1] # "json"
       THEN pc' = [pc EXCEPT ![c] = "crashed"] /\ UNCHANGED <<rng, caught>>
       ELSE IF ~ValidRequest(text[2])
       THEN /\ pc' = [pc EXCEPT ![c] = "sending_error"]
            /\ caught' = [caught EXCEPT ![c] = ValidationMessage]
            /\ UNCHANGED rng
       ELSE /\ rng' = RngAfterIntegrate(text[2], rng)
            /\ Integrated(c, IntegrationService_integrate(text[2], rng))
    /\ UNCHANGED <<active_connections, alive, inbox, bcast, remove_errors,
                   evars, qin, qout, qprev, rvars>>

\* receive_text() raises WebSocketDisconnect: the handler calls
\* connection_manager.disconnect(websocket) and returns.
ReceiveDisconnect(c) ==
    /\ pc[c] = "receiving" /\ pending[c] = NoText /\ ~alive[c]
    /\ DisconnectFrom(c, c, "closed", "crashed")
    /\ UNCHANGED <<alive, pending, served, inbox, bcast, caught,
                   evars, qvars, rvars>>

\* An exception raised by the handler's own send_json: WebSocketDisconnect
\* is caught by the outer except, anything else leaves the handler.
OwnSendRaised(c, exc) ==
    IF exc = "WebSocketDisconnect"
    THEN DisconnectFrom(c, c, "closed", "crashed")
    ELSE /\ pc' = [pc EXCEPT ![c] = "crashed"]
         /\ UNCHANGED <<active_connections, remove_errors>>

\* The "result" message has been sent; broadcast() starts: the for loop
\* takes the first connection of the list and awaits its send_json.
SendResult(c) ==
    /\ pc[c] = "sending_result"
    /\ \E out \in OwnSendOutcomes(c) :
        IF out = "ok"
        THEN /\ inbox' = [inbox EXCEPT ![c] = Append(@, <<"result", c, served[c]>>)]
             /\ UNCHANGED <<active_connections, remove_errors>>
             /\ IF active_connections = <<>>
                THEN /\ bcast' = [bcast EXCEPT ![c] =
                                    [IdleFrame EXCEPT !.status = "returned"]]
                     /\ pc' = [pc EXCEPT ![c] = "receiving"]
                ELSE /\ bcast' = [bcast EXCEPT ![c] =
                            [IdleFrame EXCEPT
                                !.status = "running",
                                !.target = active_connections[1],
                                !.idx    = 1,
                                !.start  = {active_connections[i] :
                                               i \in 1..Len(active_connections)},
                                !.sends  = [k \in Clients |-> 0]]]
                     /\ pc' = [pc EXCEPT ![c] = "broadcasting"]
        ELSE /\ OwnSendRaised(c, out)
             /\ UNCHANGED <<inbox, bcast>>
    /\ UNCHANGED <<alive, pending, served, caught, evars, qvars, rvars>>

\* "for conn in disconnected: self.disconnect(conn)": the list after the
\* removals, up to the first connection that is not in it.
RECURSIVE CleanUp(_, _)
CleanUp(list, disconnected) ==
    IF disconnected = <<>> THEN [list |-> list, missing |-> {}]
    ELSE IF ~InList(list, Head(disconnected))
    THEN [list |-> list, missing |-> {Head(disconnected)}]
    ELSE CleanUp(Remove(list, Head(disconnected)), Tail(disconnected))

\* The list iterator of "for connection in self.active_connections": the
\* position it reads next, on the list as it is now.
NextIndex(frame) == frame.idx + 1

\* The awaited send_json of a broadcast completes; the loop takes the next
\* connection of the list as it is now, or ends and cleans up.  A
\* ValueError of the clean-up is caught by the handler's "except ValueError".
BroadcastStep(c) ==
    /\ pc[c] = "broadcasting"
    /\ \E out \in BroadcastSendOutcomes(bcast[c].target) :
        LET f == bcast[c]
            t == f.target
            g == [f EXCEPT
                    !.sends = [@ EXCEPT ![t] = @ + 1],
                    !.succeeded = IF out = "ok" THEN @ \cup {t} ELSE @,
                    !.failed = IF out = "ok" THEN @ ELSE @ \cup {t},
                    !.disconnected = IF out = "ok" THEN @ ELSE Append(@, t)]
            nxt == NextIndex(f)
        IN  /\ inbox' = IF out = "ok"
                        THEN [inbox EXCEPT ![t] = Append(@, <<"update", c, served[c]>>)]
                        ELSE inbox
            /\ IF nxt <= Len(active_connections)
               THEN /\ bcast' = [bcast EXCEPT ![c] =
                                   [g EXCEPT !.target = active_connections[nxt],
                                             !.idx = nxt]]
                    /\ UNCHANGED <<active_connections, pc, remove_errors, caught>>
               ELSE LET cl == CleanUp(active_connections, g.disconnected) IN
                    /\ active_connections' = cl.list
                    /\ remove_errors' = remove_errors \cup cl.missing
                    /\ bcast' = [bcast EXCEPT ![c] =
                                   [g EXCEPT !.status = IF cl.missing = {}
                                                        THEN "returned" ELSE "raised"]]
                    /\ pc' = [pc EXCEPT ![c] = IF cl.missing = {}
                                               THEN "receiving" ELSE "sending_error"]
                    /\ caught' = [caught EXCEPT ![c] = IF cl.missing = {}
                                                       THEN @ ELSE RemoveMessage]
    /\ UNCHANGED <<alive, pending, served, evars, qvars, rvars>>

\* The "error" message has been sent, or its send_json raised.
SendError(c) ==
    /\ pc[c] = "sending_error"
    /\ \E out \in OwnSendOutcomes(c) :
        IF out = "ok"
        THEN /\ inbox' = [inbox EXCEPT ![c] =
                            Append(@, <<"error", c, served[c], caught[c]>>)]
             /\ pc' = [pc EXCEPT ![c] = "receiving"]
             /\ UNCHANGED <<active_connections, remove_errors>>
        ELSE /\ OwnSendRaised(c, out)
             /\ UNCHANGED inbox
    /\ caught' = [caught EXCEPT ![c] = NoOutcome]
    /\ UNCHANGED <<alive, pending, served, bcast, evars, qvars, rvars>>

Next ==
    \E c \in Clients :
        \/ Connect(c) \/ ClientSend(c) \/ ClientClose(c)
        \/ Receive(c) \/ ReceiveDisconnect(c)
        \/ SendResult(c) \/ BroadcastStep(c) \/ SendError(c)

Spec == WsInit /\ [][Next]_vars

\* The handler of c is inside broadcast() in this state and has returned
\* from it in the next.
BroadcastReturns(c) ==
    bcast[c].status = "running" /\ bcast'[c].status = "returned"

\* C10, the claim: after broadcast returns, every connection whose send
\* raised has been removed from active_connections, every connection whose
\* send succeeded is still in it, and send_json was called exactly once on
\* each connection registered when the broadcast started.  Stated here for
\* the connections that no other coroutine removed meanwhile: a client that
\* is still there after a successful send is still registered, and a
\* connection registered at the start and at the return got exactly one
\* send_json.
C10_BroadcastReachesRegistered ==
    [][\A c \in Clients :
        BroadcastReturns(c) =>
            /\ \A t \in bcast'[c].failed : ~InList(active_connections', t)
            /\ \A t \in bcast'[c].succeeded :
                    alive'[t] => InList(active_connections', t)
            /\ \A t \in bcast'[c].start :
                    InList(active_connections', t) => bcast'[c].sends[t] = 1]_vars

\* The text is a request that raises ValueError before integration
\* completes: it fails validation or its expression is invalid.
FailingRequest(text) ==
    /\ text[1] = "json"
    /\ \/ ~ValidRequest(text[2])
       \/ create_function(text[2].function).raised = "ValueError"

\* str(e) of such a ValueError.
IsRequestError(m) ==
    m = ValidationMessage \/ m[1] = "Invalid function expression: "

\* The messages of the given types that client t was sent for request k of
\* client c.
MessagesFor(t, c, k, types) ==
    {i \in 1..Len(inbox[t]) :
        inbox[t][i][1] \in types /\ inbox[t][i][2] = c /\ inbox[t][i][3] = k}

\* The handler of c reads a failing request in this step.
ReceivesFailing(c) ==
    /\ pc[c] = "receiving" /\ pending[c] # NoText /\ pending'[c] = NoText
    /\ FailingRequest(pending[c])

\* The handler of c is about to send the error message for a failing
\* request, or has sent it.
ErrorDue(c)  == pc[c] = "sending_error" /\ IsRequestError(caught[c])
ErrorSent(c, k) ==
    \E i \in MessagesFor(c, c, k, {"error"}) : IsRequestError(inbox[c][i][4])

\* C11: when a WebSocket request fails validation or its expression is
\* invalid, the handler catches the ValueError; no "result" or "update"
\* message is sent to any client for that request; the requesting client,
\* while it is connected, is sent exactly one "error" message with the
\* message string; and the handler is back at receive_text() on the same,
\* still registered connection, where it serves the next request.
C11_ErrorReply ==
    /\ [][\A c \in Clients :
            ReceivesFailing(c) => pc'[c] = "sending_error" /\ ErrorDue(c)']_vars
    /\ [](\A c \in Clients :
            /\ ErrorDue(c) =>
                 \A t \in Clients :
                    MessagesFor(t, c, served[c], {"result", "update", "error"}) = {}
            /\ \A k \in 1..served[c] :
                 ErrorSent(c, k) =>
                    /\ Cardinality(MessagesFor(c, c, k, {"error"})) = 1
                    /\ \A t \in Clients :
                          MessagesFor(t, c, k, {"result", "update"}) = {})
    /\ [][\A c \in Clients :
            (ErrorDue(c) /\ alive[c] /\ pc'[c] # pc[c]) =>
                /\ inbox'[c] = Append(inbox[c], <<"error", c, served[c], caught[c]>>)
                /\ pc'[c] = "receiving"
                /\ active_connections' = active_connections]_vars

\* A client got the error message for its first request and the result of
\* its second on the same connection.
C11_Witness ==
    \E c \in Clients :
        /\ served[c] = 2 /\ ErrorSent(c, 1)
        /\ InList(active_connections, c)
        /\ MessagesFor(c, c, 2, {"result"}) # {}
        /\ MessagesFor(c, c, 1, {"result", "update"}) = {}

\* C12, the claim: under every interleaving of the handlers, disconnect is
\* only ever invoked for a connection that is in active_connections, so its
\* list removal never raises.
C12_DisconnectOnlyRegistered == remove_errors = {}

\* The handler of c has terminated: it returned after disconnect(), or an
\* exception left it.
Terminated(c) == pc[c] \in {"closed", "crashed"}

\* C13, the claim: whenever a handler has terminated for a connection, by
\* client disconnect, by text that is not valid JSON or by an exception
\* other than ValueError raised while integrating, that connection is no
\* longer in active_connections.
C13_TerminatedNotRegistered ==
    \A c \in Clients : Terminated(c) => ~InList(active_connections, c)

=============================================================================
